---- MODULE Spec2Model ----
(***************************************************************************)
(* TransportNetwork (src/main.py): a multigraph of stations joined by      *)
(* parallel typed connections, the preference-weighted route search over   *)
(* it and the metrics derived from the returned path.                      *)
(*                                                                         *)
(* network_node, network_adj and network_edge are the nodes (with their    *)
(* attributes), the adjacency of each node in insertion order and the      *)
(* parallel edges of each station pair in key order; result is the         *)
(* outcome of the last call.  The route search is the bidirectional        *)
(* Dijkstra search that nx.shortest_path runs for a source and a target,   *)
(* with its alternation of directions and its insertion-order tie-breaks.  *)
(*                                                                         *)
(* Preference multipliers are held in tenths (1.5 is 15), so that every    *)
(* weight is an integer; weights are therefore in tenths of a minute.      *)
(* The coordinates of a station and the schedule of a connection are read  *)
(* by no operation modelled here and are left out.  Connections join two   *)
(* different stations.                                                     *)
(***************************************************************************)
EXTENDS Integers, Sequences, FiniteSets, TLC

VARIABLES network_node, network_adj, network_edge, station_capacity, result

network == <<network_node, network_adj, network_edge>>
vars == <<network_node, network_adj, network_edge, station_capacity, result>>

----------------------------------------------------------------------------
(* Inputs and bounds *)

Stations == {"West", "South", "Airport"}
transport_types == {"Metro", "Bus", "Train"}
\* The (transport_type, travel_time) arguments add_connection is called with;
\* "Tram" is outside transport_types.
ConnectionInputs ==
    {<<"Metro", 10>>, <<"Bus", 8>>, <<"Train", 5>>, <<"Tram", 8>>}
Capacities == {500}
MaxSize == 3

EmptyDict == [x \in {} |-> 0]

NeutralMultiplier == 10
DefaultPreferences == ("Metro" :> 10) @@ ("Bus" :> 15) @@ ("Train" :> 12)
NoPreferences == [given |-> FALSE, table |-> EmptyDict]
MetroOverBus == [given |-> TRUE, table |-> ("Metro" :> 10) @@ ("Bus" :> 20)]
PreferenceInputs == {NoPreferences, MetroOverBus}

Pairs == {{u, v} : u, v \in Stations} \ {{s} : s \in Stations}

----------------------------------------------------------------------------
(* Helpers *)

Min(S) == CHOOSE x \in S : \A y \in S : x <= y

Reverse(seq) == [i \in 1..Len(seq) |-> seq[Len(seq) + 1 - i]]

Range(seq) == {seq[i] : i \in 1..Len(seq)}

NumConnections ==
    Cardinality(UNION {{p} \X (1..Len(network_edge[p])) : p \in Pairs})

\* The network is built up to MaxSize stations added by add_station plus
\* connections.
Size == Cardinality(DOMAIN station_capacity) + NumConnections

NoResult(op, outcome) ==
    [op |-> op, outcome |-> outcome, start |-> "", end |-> "",
     preferences |-> NoPreferences, path |-> <<>>, total_time |-> 0,
     transfers |-> 0]

\* What add_station returns, what add_connection returns, and the error it
\* raises for a transport type it does not know.
station_added == NoResult("add_station", "ok")
connection_added == NoResult("add_connection", "ok")
invalid_transport_type == NoResult("add_connection", "InvalidTransportType")

----------------------------------------------------------------------------
(* Network model *)

Init ==
    /\ network_node = EmptyDict
    /\ network_adj = EmptyDict
    /\ network_edge = [p \in Pairs |-> <<>>]
    /\ station_capacity = EmptyDict
    /\ result = NoResult("init", "ok")

add_node(node, adj, n) ==
    IF n \in DOMAIN node THEN <<node, adj>>
    ELSE <<(n :> EmptyDict) @@ node, (n :> <<>>) @@ adj>>

add_station(station_id, capacity) ==
    /\ Size < MaxSize
    /\ LET added == add_node(network_node, network_adj, station_id)
       IN /\ network_node' = [added[1] EXCEPT ![station_id] =
                                  ("capacity" :> capacity) @@ @]
          /\ network_adj' = added[2]
    /\ station_capacity' = (station_id :> capacity) @@ station_capacity
    /\ UNCHANGED network_edge
    /\ result' = station_added

\* add_edge(start, end): both stations become nodes, and neighbours of each
\* other if they were not.
add_edge(start, end) ==
    LET a1 == add_node(network_node, network_adj, start)
        a2 == add_node(a1[1], a1[2], end)
        adj == a2[2]
        adj1 == IF end \in Range(adj[start]) THEN adj
                ELSE [adj EXCEPT ![start] = Append(@, end)]
        adj2 == IF start \in Range(adj1[end]) THEN adj1
                ELSE [adj1 EXCEPT ![end] = Append(@, start)]
    IN <<a2[1], adj2>>

\* The new parallel edge, under the next free key, with its attributes.
new_edge(start, end, transport_type, travel_time) ==
    [network_edge EXCEPT ![{start, end}] =
        Append(@, [transport_type |-> transport_type,
                   travel_time |-> travel_time])]

\* add_connection with the edge inserted before the type is validated.
add_connection_validate_late(start, end, transport_type, travel_time) ==
    /\ Size < MaxSize
    /\ network_edge' = new_edge(start, end, transport_type, travel_time)
    /\ LET g == add_edge(start, end)
       IN /\ network_node' = g[1]
          /\ network_adj' = g[2]
    /\ UNCHANGED station_capacity
    /\ result' = IF transport_type \notin transport_types
                 THEN invalid_transport_type
                 ELSE connection_added

add_connection(start, end, transport_type, travel_time) ==
    IF transport_type \notin transport_types
    THEN /\ result' = invalid_transport_type
         /\ UNCHANGED <<network_node, network_adj, network_edge,
                        station_capacity>>
    ELSE /\ result' = connection_added
         /\ Size < MaxSize
         /\ network_edge' = new_edge(start, end, transport_type, travel_time)
         /\ LET g == add_edge(start, end)
            IN /\ network_node' = g[1]
               /\ network_adj' = g[2]
         /\ UNCHANGED station_capacity

----------------------------------------------------------------------------
(* Route search *)

\* preferences.get(transport_type, 1)
multiplier(preferences, transport_type) ==
    IF transport_type \in DOMAIN preferences THEN preferences[transport_type]
    ELSE NeutralMultiplier

\* The loop of weight_function over the parallel connections, from key k on;
\* min_weight is -1 while it is float('inf').
RECURSIVE min_weight_loop(_, _, _, _)
min_weight_loop(keydict, k, preferences, min_weight) ==
    IF k > Len(keydict) THEN min_weight
    ELSE LET weight == keydict[k].travel_time
                         * multiplier(preferences, keydict[k].transport_type)
         IN min_weight_loop(keydict, k + 1, preferences,
                            IF min_weight < 0 \/ weight < min_weight
                            THEN weight ELSE min_weight)

\* weight_function without the preference multiplier.
weight_function_unweighted(u, v, preferences) ==
    LET keydict == network_edge[{u, v}]
        weights == {keydict[k].travel_time * NeutralMultiplier :
                    k \in 1..Len(keydict)}
    IN IF weights = {} THEN NeutralMultiplier ELSE Min(weights)

\* The callable handed to the search: the cheapest weighted parallel
\* connection between u and v, or 1 when none carries both attributes.
weight_function(u, v, preferences) ==
    LET min_weight == min_weight_loop(network_edge[{u, v}], 1, preferences, -1)
    IN IF min_weight < 0 THEN NeutralMultiplier ELSE min_weight

\* heappop on entries (distance, counter, node)
heap_top(fringe) ==
    CHOOSE x \in fringe :
        \A y \in fringe : x[1] < y[1] \/ (x[1] = y[1] /\ x[2] <= y[2])

\* join_path putting the half found from the target first.
join_path_from_target(forward, backward) == backward \o Tail(Reverse(forward))

\* What the search records when the relaxation of w joins the two frontiers.
join_path(forward, backward) == forward \o Tail(Reverse(backward))

\* The dictionaries of the search are kept over all stations: a station that
\* is no key of dists or seen is at distance -1, and has the empty path.
no_distances == [n \in Stations |-> -1]
no_paths == [n \in Stations |-> <<>>]

\* The loop over the neighbours of v, in adjacency order, in direction dir
\* (1 forward from the source, 2 backward from the target): a settled
\* neighbour must not get closer (the search then reports contradictory
\* paths); an unseen or improved neighbour is relaxed, and becomes the
\* meeting point of the best route when it is seen from both sides at a
\* smaller total distance.
RECURSIVE relax(_, _, _, _, _)
relax(st, v, dir, i, preferences) ==
    IF st.contradictory \/ i > Len(network_adj[v]) THEN st
    ELSE LET w == network_adj[v][i]
             cost == IF dir = 1 THEN weight_function(v, w, preferences)
                     ELSE weight_function(w, v, preferences)
             vwLength == st.dists[dir][v] + cost
             other == st.seen[3 - dir][w]
             path == Append(st.paths[dir][v], w)
         IN IF st.dists[dir][w] >= 0
            THEN IF vwLength < st.dists[dir][w]
                 THEN [st EXCEPT !.contradictory = TRUE]
                 ELSE relax(st, v, dir, i + 1, preferences)
            ELSE IF st.seen[dir][w] < 0 \/ vwLength < st.seen[dir][w]
            THEN IF /\ other >= 0
                    /\ (st.finalpath = <<>> \/ st.finaldist > vwLength + other)
                 THEN relax([st EXCEPT
                               !.seen[dir][w] = vwLength,
                               !.fringe[dir] = @ \cup {<<vwLength, st.c, w>>},
                               !.c = @ + 1,
                               !.paths[dir][w] = path,
                               !.finaldist = vwLength + other,
                               !.finalpath =
                                   IF dir = 1
                                   THEN join_path(path, st.paths[2][w])
                                   ELSE join_path(st.paths[1][w], path)],
                            v, dir, i + 1, preferences)
                 ELSE relax([st EXCEPT
                               !.seen[dir][w] = vwLength,
                               !.fringe[dir] = @ \cup {<<vwLength, st.c, w>>},
                               !.c = @ + 1,
                               !.paths[dir][w] = path],
                            v, dir, i + 1, preferences)
            ELSE relax(st, v, dir, i + 1, preferences)

\* The main loop of the bidirectional search: alternate directions, pop the
\* closest fringe node and settle it unless it is settled already; stop
\* when a node is settled from both sides or a fringe is empty.
RECURSIVE bidirectional_loop(_, _)
bidirectional_loop(st, preferences) ==
    IF st.contradictory
    THEN [outcome |-> "ValueError", path |-> <<>>]
    ELSE IF st.fringe[1] = {} \/ st.fringe[2] = {}
    THEN [outcome |-> "NetworkXNoPath", path |-> <<>>]
    ELSE LET dir == 3 - st.dir
             top == heap_top(st.fringe[dir])
             v == top[3]
         IN IF st.dists[dir][v] >= 0
            THEN bidirectional_loop(
                     [st EXCEPT !.dir = dir, !.fringe[dir] = @ \ {top}],
                     preferences)
            ELSE IF st.dists[3 - dir][v] >= 0
            THEN [outcome |-> "ok", path |-> st.finalpath]
            ELSE bidirectional_loop(
                     relax([st EXCEPT !.dir = dir,
                                      !.fringe[dir] = @ \ {top},
                                      !.dists[dir][v] = top[1]],
                           v, dir, 1, preferences),
                     preferences)

initial_search(source, target) ==
    [dists |-> <<no_distances, no_distances>>,
     paths |-> <<[no_paths EXCEPT ![source] = <<source>>],
                 [no_paths EXCEPT ![target] = <<target>>]>>,
     fringe |-> <<{<<0, 0, source>>}, {<<0, 1, target>>}>>,
     seen |-> <<[no_distances EXCEPT ![source] = 0],
                [no_distances EXCEPT ![target] = 0]>>,
     c |-> 2,
     finaldist |-> 0,
     finalpath |-> <<>>,
     contradictory |-> FALSE,
     dir |-> 2]

\* shortest_path without the answer for source = target.
shortest_path_always_search(source, target, preferences) ==
    bidirectional_loop(initial_search(source, target), preferences)

\* nx.shortest_path(self.network, start, end, weight=weight_function)
shortest_path(source, target, preferences) ==
    IF source = target THEN [outcome |-> "ok", path |-> <<source>>]
    ELSE bidirectional_loop(initial_search(source, target), preferences)

----------------------------------------------------------------------------
(* Metrics derivation *)

\* calculate_total_time taking the first parallel connection of each hop.
calculate_total_time_first(path) ==
    LET first_time(i) ==
            LET keydict == network_edge[{path[i], path[i + 1]}]
            IN IF keydict = <<>> THEN 0 ELSE keydict[1].travel_time
        RECURSIVE total(_)
        total(i) == IF i >= Len(path) THEN 0 ELSE first_time(i) + total(i + 1)
    IN total(1)

calculate_total_time(path) ==
    LET min_time(i) ==
            LET keydict == network_edge[{path[i], path[i + 1]}]
                times == {keydict[k].travel_time : k \in 1..Len(keydict)}
            IN IF times = {} THEN 0 ELSE Min(times)
        RECURSIVE total(_)
        total(i) == IF i >= Len(path) THEN 0 ELSE min_time(i) + total(i + 1)
    IN total(1)

\* The transport type the loop over the parallel connections stops at: the
\* first one in key order (every recorded type is a non-empty string).
segment_transport(u, v) ==
    LET keydict == network_edge[{u, v}]
    IN IF keydict = <<>> THEN "" ELSE keydict[1].transport_type

count_transfers(path) ==
    LET changes(i) ==
            LET current_transport == segment_transport(path[i], path[i + 1])
                next_transport == segment_transport(path[i + 1], path[i + 2])
            IN IF /\ current_transport # ""
                  /\ next_transport # ""
                  /\ current_transport # next_transport
               THEN 1 ELSE 0
        RECURSIVE count(_)
        count(i) == IF i > Len(path) - 2 THEN 0 ELSE changes(i) + count(i + 1)
    IN count(1)

effective(preferences) ==
    IF preferences.given THEN preferences.table ELSE DefaultPreferences

route_found(start, end, preferences, path) ==
    [op |-> "find_optimal_route", outcome |-> "ok",
     start |-> start, end |-> end, preferences |-> preferences,
     path |-> path,
     total_time |-> calculate_total_time(path),
     transfers |-> count_transfers(path)]

route_failed(start, end, preferences, outcome) ==
    [NoResult("find_optimal_route", outcome) EXCEPT
        !.start = start, !.end = end, !.preferences = preferences]

\* route_result answering with an empty route when the search finds none.
route_result_empty_route(start, end, preferences) ==
    IF start \notin DOMAIN network_node \/ end \notin DOMAIN network_node
    THEN route_failed(start, end, preferences, "StationNotFound")
    ELSE LET found == shortest_path(start, end, effective(preferences))
         IN IF found.outcome = "ok" \/ found.outcome = "NetworkXNoPath"
            THEN route_found(start, end, preferences, found.path)
            ELSE route_failed(start, end, preferences, "ContradictoryPaths")

\* route_result looking up only start; the search then rejects an end that
\* is no node of the graph with its own error.
route_result_start_only(start, end, preferences) ==
    IF start \notin DOMAIN network_node
    THEN route_failed(start, end, preferences, "StationNotFound")
    ELSE IF end \notin DOMAIN network_node
    THEN route_failed(start, end, preferences, "NodeNotFound")
    ELSE LET found == shortest_path(start, end, effective(preferences))
         IN IF found.outcome = "ok"
            THEN route_found(start, end, preferences, found.path)
            ELSE IF found.outcome = "NetworkXNoPath"
            THEN route_failed(start, end, preferences, "NoPathFound")
            ELSE route_failed(start, end, preferences, "ContradictoryPaths")

route_result(start, end, preferences) ==
    IF start \notin DOMAIN network_node \/ end \notin DOMAIN network_node
    THEN route_failed(start, end, preferences, "StationNotFound")
    ELSE LET found == shortest_path(start, end, effective(preferences))
         IN IF found.outcome = "ok"
            THEN route_found(start, end, preferences, found.path)
            ELSE IF found.outcome = "NetworkXNoPath"
            THEN route_failed(start, end, preferences, "NoPathFound")
            ELSE route_failed(start, end, preferences, "ContradictoryPaths")

\* find_optimal_route entering the queried stations into the graph.
find_optimal_route_registering(start, end, preferences) ==
    /\ result' = route_result(start, end, preferences)
    /\ LET a1 == add_node(network_node, network_adj, start)
           a2 == add_node(a1[1], a1[2], end)
       IN /\ network_node' = a2[1]
          /\ network_adj' = a2[2]
    /\ UNCHANGED <<network_edge, station_capacity>>

find_optimal_route(start, end, preferences) ==
    /\ result' = route_result(start, end, preferences)
    /\ UNCHANGED <<network_node, network_adj, network_edge, station_capacity>>

----------------------------------------------------------------------------

\* Building the network: the calls of add_station and add_connection.
Build ==
    \/ \E s \in Stations, c \in Capacities : add_station(s, c)
    \/ \E s, e \in Stations, c \in ConnectionInputs :
          s # e /\ add_connection(s, e, c[1], c[2])

\* Querying it, at any time.
Query ==
    \E s, e \in Stations, p \in PreferenceInputs :
        find_optimal_route(s, e, p)

Next == Build \/ Query

Spec == Init /\ [][Next]_vars

\* The construction of the network alone, as create_sample_network runs it.
SpecBuild == Init /\ [][Build]_vars
----------------------------------------------------------------------------
(* What the claims are stated in: walks of the network and their costs,    *)
(* computed from network_edge alone.                                       *)

Routed == result.op = "find_optimal_route"
Returned == Routed /\ result.outcome = "ok"

Walks == UNION {[1..n -> Stations] : n \in 1..(Cardinality(Stations) + 1)}

Joined(u, v) == u # v /\ network_edge[{u, v}] # <<>>

IsWalk(w, s, e) ==
    /\ w # <<>>
    /\ w[1] = s
    /\ w[Len(w)] = e
    /\ \A i \in 1..Len(w) : w[i] \in DOMAIN network_node
    /\ \A i \in 1..(Len(w) - 1) : Joined(w[i], w[i + 1])

Linked(s, e) == \E w \in Walks : IsWalk(w, s, e)

Parallel(u, v) == {network_edge[{u, v}][k] : k \in 1..Len(network_edge[{u, v}])}

HopCost(u, v, table) ==
    LET cost(c) == c.travel_time *
                     (IF c.transport_type \in DOMAIN table
                      THEN table[c.transport_type] ELSE 10)
    IN CHOOSE x \in {cost(c) : c \in Parallel(u, v)} :
          \A c \in Parallel(u, v) : x <= cost(c)

HopTime(u, v) ==
    CHOOSE x \in {c.travel_time : c \in Parallel(u, v)} :
        \A c \in Parallel(u, v) : x <= c.travel_time

WalkCost(w, table) ==
    LET RECURSIVE sum(_)
        sum(i) == IF i >= Len(w) THEN 0
                  ELSE HopCost(w[i], w[i + 1], table) + sum(i + 1)
    IN sum(1)

WalkTime(w) ==
    LET RECURSIVE sum(_)
        sum(i) == IF i >= Len(w) THEN 0
                  ELSE HopTime(w[i], w[i + 1]) + sum(i + 1)
    IN sum(1)

Table(preferences) ==
    IF preferences.given THEN preferences.table
    ELSE ("Metro" :> 10) @@ ("Bus" :> 15) @@ ("Train" :> 12)

Known == DOMAIN station_capacity \cup UNION {p \in Pairs : network_edge[p] # <<>>}

----------------------------------------------------------------------------
C2_PathFollowsConnections ==
    (Routed /\ Linked(result.start, result.end)) =>
        /\ result.outcome = "ok"
        /\ Len(result.path) >= 1
        /\ result.path[1] = result.start
        /\ result.path[Len(result.path)] = result.end
        /\ \A i \in 1..(Len(result.path) - 1) :
              /\ result.path[i] # result.path[i + 1]
              /\ network_edge[{result.path[i], result.path[i + 1]}] # <<>>

C2_Witness ==
    /\ Returned
    /\ Len(result.path) = 3
    /\ ~Joined(result.start, result.end)

\* The Metro 10 / Bus 8 pair of stations queried with {Metro: 1, Bus: 2}.
MetroBusExample ==
    /\ Returned
    /\ result.start # result.end
    /\ Parallel(result.start, result.end) =
          {[transport_type |-> "Metro", travel_time |-> 10],
           [transport_type |-> "Bus", travel_time |-> 8]}
    /\ result.preferences.given
    /\ result.preferences.table = ("Metro" :> 10) @@ ("Bus" :> 20)

\* C3: total_time is the sum over the hops of the returned path of the
\* minimum raw travel_time of the hop's parallel connections, whatever the
\* preferences; for Metro 10 and Bus 8 under {Metro: 1, Bus: 2} the
\* total_time is 8 although the hop's search weight is 10.
C3_TotalTimeIsRawMinimum ==
    /\ Returned => result.total_time = WalkTime(result.path)
    /\ MetroBusExample =>
          /\ result.path = <<result.start, result.end>>
          /\ result.total_time = 8
          /\ HopCost(result.start, result.end, result.preferences.table)
                = 10 * 10

C3_Witness == MetroBusExample /\ result.total_time = 8

\* C6: a route from a station of the network to itself is the one-station
\* path, with total_time 0 and 0 transfers, for every preference table.
C6_SameStation ==
    (Routed /\ result.start = result.end
            /\ result.start \in DOMAIN network_node) =>
        /\ result.outcome = "ok"
        /\ result.path = <<result.start>>
        /\ result.total_time = 0
        /\ result.transfers = 0

\* The station was added by add_station and has no connection at all.
C6_Witness ==
    /\ Returned
    /\ result.start = result.end
    /\ result.start \in DOMAIN station_capacity
    /\ \A p \in Pairs : result.start \in p => network_edge[p] = <<>>
    /\ result.preferences.given

\* C7: between two stations of the network that no sequence of connections
\* links, the query fails with the no-path error and yields no path,
\* total_time or transfer count.
C7_NoPathError ==
    (/\ Routed
     /\ result.start \in Known
     /\ result.end \in Known
     /\ ~Linked(result.start, result.end)) =>
        /\ result.outcome = "NoPathFound"
        /\ result.path = <<>>
        /\ result.total_time = 0
        /\ result.transfers = 0

\* One of the two stations has connections, the other has none.
C7_Witness ==
    /\ Routed
    /\ result.outcome = "NoPathFound"
    /\ \E p \in Pairs : result.start \in p /\ network_edge[p] # <<>>
    /\ result.end \in DOMAIN station_capacity

\* C8: the query fails with the unknown-station error exactly when start or
\* end was neither passed to add_station nor an endpoint of a successful
\* add_connection.
C8_UnknownStationError ==
    Routed =>
        (result.outcome = "StationNotFound"
            <=> (result.start \notin Known \/ result.end \notin Known))

\* Both stations exist only because add_connection referenced them.
C8_Witness ==
    /\ Returned
    /\ result.start # result.end
    /\ result.start \notin DOMAIN station_capacity
    /\ result.end \notin DOMAIN station_capacity

AddedExactly(start, end, transport_type, travel_time) ==
    /\ network_edge' =
          [network_edge EXCEPT ![{start, end}] =
              Append(@, [transport_type |-> transport_type,
                         travel_time |-> travel_time])]
    /\ DOMAIN network_node' = DOMAIN network_node \cup {start, end}
    /\ result'.outcome = "ok"

C10_QueryLeavesNetwork ==
    /\ [][result'.op = "find_optimal_route" =>
             UNCHANGED <<network_node, network_adj, network_edge,
                         station_capacity>>]_vars
    /\ [](Routed => route_result(result.start, result.end,
                                 result.preferences) = result)

C10_Witness ==
    /\ Routed
    /\ result.outcome = "StationNotFound"
    /\ result.start \in DOMAIN network_node
    /\ DOMAIN network_node # {}

----------------------------------------------------------------------------
\* The transport types of the connections of a hop with minimum travel_time.
FastestTypes(u, v) ==
    {c.transport_type : c \in {d \in Parallel(u, v) :
                                  d.travel_time = HopTime(u, v)}}

\* C4: count_transfers is the number of interior stations of the path where
\* the type of the arriving hop differs from the type of the departing hop,
\* the type of a hop being that of its parallel connection with minimum
\* travel_time, whatever the order the connections were added in.
C4_TransfersByFastestConnection ==
    Returned =>
        LET n == Len(result.path) - 1
        IN \E f \in [1..n -> transport_types] :
              /\ \A i \in 1..n :
                    f[i] \in FastestTypes(result.path[i], result.path[i + 1])
              /\ result.transfers =
                    Cardinality({i \in 1..(n - 1) : f[i] # f[i + 1]})

\* C5: between any pair of stations there is at most one connection of each
\* transport type.
C5_OneConnectionPerType ==
    \A p \in Pairs, t \in transport_types :
        Cardinality({k \in 1..Len(network_edge[p]) :
                        network_edge[p][k].transport_type = t}) <= 1

====
